---- MODULE Spec2Model ----
(***************************************************************************)
(* StringReader (src/src/lib.rs): a cursor over a borrowed string with a   *)
(* one-character lookahead.  A string is a sequence of characters; a       *)
(* character carries its UTF-8 encoding, because the slicing methods       *)
(* (match_str, read_until, parse_word) work on byte indices.               *)
(***************************************************************************)
EXTENDS Integers, Sequences, FiniteSets, TLC

\* Longest input string handed to new(), in characters.
MaxLen == 3
\* Longest literal handed to match_str(), in characters.
MaxLit == 2

\* The characters of the modelled inputs: a letter, a digit, the ASCII space
\* and U+2003 EM SPACE (whitespace, three bytes in UTF-8).
Chars == {"a", "2", " ", "EM"}

\* Longest input string of the numeric specification, in characters.
MaxNumLen == 4

\* The characters of the inputs of read_u8 and read_i8: digits enough for the
\* limits of both types, the two signs and the ASCII space.
NumChars == {"0", "1", "2", "5", "6", "8", "-", "+", " "}

\* Option<char>::None
None == "None"

\* char::is_whitespace
is_whitespace(c) == c \in {" ", "EM"}

\* The ASCII decimal digits, in order.
Digits == <<"0", "1", "2", "3", "4", "5", "6", "7", "8", "9">>

\* char::to_digit(10); -1 for a character that is not a decimal digit.
to_digit(c) ==
  IF \E i \in 1..10 : Digits[i] = c
  THEN (CHOOSE i \in 1..10 : Digits[i] = c) - 1
  ELSE -1

\* The UTF-8 encoding of a character.
Utf8(c) ==
  CASE c = "EM" -> <<226, 128, 131>>
    [] c = " "  -> <<32>>
    [] c = "-"  -> <<45>>
    [] c = "+"  -> <<43>>
    [] c = "a"  -> <<97>>
    [] to_digit(c) >= 0 -> <<48 + to_digit(c)>>

\* str::as_bytes: the bytes of a string.
RECURSIVE as_bytes(_)
as_bytes(s) == IF s = <<>> THEN <<>> ELSE Utf8(Head(s)) \o as_bytes(Tail(s))

\* str::len: the length of a string in bytes.
len(s) == Len(as_bytes(s))

\* str::is_char_boundary: byte index mid falls between two characters.
is_char_boundary(s, mid) == \E k \in 0..Len(s) : len(SubSeq(s, 1, k)) = mid

\* str::split_at: the two halves of s around byte index mid (a boundary).
split_at(s, mid) ==
  LET k == CHOOSE k \in 0..Len(s) : len(SubSeq(s, 1, k)) = mid
  IN  <<SubSeq(s, 1, k), SubSeq(s, k + 1, Len(s))>>

\* str::starts_with(&str): the bytes of val are a prefix of the bytes of s.
starts_with(s, val) ==
  LET b == as_bytes(s)
      v == as_bytes(val)
  IN  Len(v) <= Len(b) /\ SubSeq(b, 1, Len(v)) = v

\* Option<usize>::None, the result of a failed str::find.
NoIndex == -1

\* find that returns the last character for which the pattern holds.
find_last(s, cnd) ==
  LET hits == {i \in 1..Len(s) : s[i] \in cnd}
  IN  IF hits = {} THEN NoIndex
      ELSE LET i == CHOOSE i \in hits : \A j \in hits : i >= j
           IN  len(SubSeq(s, 1, i - 1))

\* str::find(pattern): byte index of the first character for which the
\* pattern holds; cnd is the set of characters for which it holds.
find(s, cnd) ==
  LET hits == {i \in 1..Len(s) : s[i] \in cnd}
  IN  IF hits = {} THEN NoIndex
      ELSE LET i == CHOOSE i \in hits : \A j \in hits : i <= j
           IN  len(SubSeq(s, 1, i - 1))

\* The characters for which char::is_whitespace holds.
Whitespace == {c \in Chars : is_whitespace(c)}

\* trim_start that strips ASCII spaces only.
RECURSIVE trim_start_ascii(_)
trim_start_ascii(s) ==
  IF s # <<>> /\ Head(s) = " " THEN trim_start_ascii(Tail(s)) ELSE s

\* str::trim_start: s without its leading whitespace.
RECURSIVE trim_start(_)
trim_start(s) ==
  IF s # <<>> /\ is_whitespace(Head(s)) THEN trim_start(Tail(s)) ELSE s

\* Chars::clone().next(): the first character of the rest, not consumed.
Peek(s) == IF s = <<>> THEN None ELSE Head(s)

\* Chars::next() leaves the rest of the string behind.
Advance(s) == IF s = <<>> THEN <<>> ELSE Tail(s)

\* The types parse_word::<T>() is instantiated with.
Types == {"u8", "i8", "String"}

\* T::MIN and T::MAX of the integer types.
MinOf(T) == IF T = "i8" THEN -128 ELSE 0
MaxOf(T) == IF T = "i8" THEN 127 ELSE 255

\* The digit loop in wrapping arithmetic: no overflow is reported.
RECURSIVE parse_digits_wrapping(_, _, _, _)
parse_digits_wrapping(T, digits, positive, result) ==
  IF digits = <<>> THEN [ok |-> TRUE, err |-> "none", val |-> result]
  ELSE LET x   == to_digit(Head(digits))
           nxt == IF positive THEN result * 10 + x ELSE result * 10 - x
       IN  IF x < 0 THEN [ok |-> FALSE, err |-> "InvalidDigit", val |-> 0]
           ELSE parse_digits_wrapping(T, Tail(digits), positive,
                  ((nxt - MinOf(T)) % 256) + MinOf(T))

\* The digit loop of the integer from_str: each step checks the digit, then
\* the multiplication, then the addition (subtraction for a negative number).
RECURSIVE parse_digits(_, _, _, _)
parse_digits(T, digits, positive, result) ==
  IF digits = <<>> THEN [ok |-> TRUE, err |-> "none", val |-> result]
  ELSE LET x   == to_digit(Head(digits))
           mul == result * 10
           nxt == IF positive THEN mul + x ELSE mul - x
           ovf == IF positive THEN "PosOverflow" ELSE "NegOverflow"
       IN  IF x < 0 THEN [ok |-> FALSE, err |-> "InvalidDigit", val |-> 0]
           ELSE IF mul < MinOf(T) \/ mul > MaxOf(T) \/ nxt < MinOf(T) \/ nxt > MaxOf(T)
                THEN [ok |-> FALSE, err |-> ovf, val |-> 0]
                ELSE parse_digits(T, Tail(digits), positive, nxt)

\* <T as FromStr>::from_str(word) for the types of Types: String never
\* fails; an integer takes an optional sign (a minus only when the type is
\* signed) followed by at least one decimal digit, within the type's range.
from_str(T, word) ==
  IF T = "String" THEN [ok |-> TRUE, err |-> "none", val |-> 0]
  ELSE IF word = <<>> THEN [ok |-> FALSE, err |-> "Empty", val |-> 0]
  ELSE IF word \in {<<"+">>, <<"-">>} THEN [ok |-> FALSE, err |-> "InvalidDigit", val |-> 0]
  ELSE IF Head(word) = "+" THEN parse_digits(T, Tail(word), TRUE, 0)
  ELSE IF Head(word) = "-" /\ T = "i8" THEN parse_digits(T, Tail(word), FALSE, 0)
  ELSE parse_digits(T, word, TRUE, 0)

(***************************************************************************)
(* The reader: r.input is the rest of the string held by the Chars         *)
(* iterator, r.current the cached lookahead.  Each method is an operator   *)
(* from the reader before the call to the reader after it and the result.  *)
(***************************************************************************)

\* new that takes the first character out of the iterator.
new_advanced(s) == [input |-> Advance(s), current |-> Peek(s)]

\* StringReader::new
new(s) == [input |-> s, current |-> Peek(s)]

\* StringReader::current_char
current_char(r) == r.current

\* StringReader::is_empty
is_empty(r) == current_char(r) = None

\* StringReader::as_str
as_str(r) == r.input

\* read_char that returns the next character without removing it.
read_char_peek(r) ==
  IF r.input = <<>>
  THEN [r |-> r, res |-> "EmptyInput", retc |-> None]
  ELSE [r |-> r, res |-> "Ok", retc |-> Head(r.input)]

\* read_char that returns the lookahead it has just refreshed.
read_char_refreshed(r) ==
  IF r.input = <<>>
  THEN [r |-> r, res |-> "EmptyInput", retc |-> None]
  ELSE LET rest == Advance(r.input)
       IN  [r |-> [input |-> rest, current |-> Peek(rest)],
            res |-> "Ok", retc |-> Peek(rest)]

\* StringReader::read_char
read_char(r) ==
  IF r.input = <<>>
  THEN [r |-> r, res |-> "EmptyInput", retc |-> None]
  ELSE LET rest == Advance(r.input)
       IN  [r |-> [input |-> rest, current |-> Peek(rest)],
            res |-> "Ok", retc |-> Head(r.input)]

\* StringReader::skip_char
skip_char(r) ==
  LET rest == Advance(r.input)
  IN  [input |-> rest, current |-> Peek(rest)]

\* match_char that removes the current character before comparing it.
match_char_eager(r, expected) ==
  IF current_char(r) = None THEN [r |-> r, res |-> "EmptyInput"]
  ELSE IF current_char(r) # expected THEN [r |-> skip_char(r), res |-> "NoMatch"]
  ELSE [r |-> skip_char(r), res |-> "Ok"]

\* match_char that compares before it looks whether there is a character.
match_char_compare_first(r, expected) ==
  IF current_char(r) # expected THEN [r |-> r, res |-> "NoMatch"]
  ELSE [r |-> skip_char(r), res |-> "Ok"]

\* StringReader::match_char
match_char(r, expected) ==
  IF current_char(r) = None THEN [r |-> r, res |-> "EmptyInput"]
  ELSE IF current_char(r) # expected THEN [r |-> r, res |-> "NoMatch"]
  ELSE [r |-> skip_char(r), res |-> "Ok"]

\* skip_whitespace with an if for the while: one character at most.
skip_whitespace_once(r) ==
  IF current_char(r) # None /\ is_whitespace(current_char(r))
  THEN skip_char(r)
  ELSE r

\* StringReader::skip_whitespace
RECURSIVE skip_whitespace(_)
skip_whitespace(r) ==
  IF current_char(r) # None /\ is_whitespace(current_char(r))
  THEN skip_whitespace(skip_char(r))
  ELSE r

\* The characters the skip_char calls of skip_whitespace remove, in order.
RECURSIVE skipped_whitespace(_)
skipped_whitespace(r) ==
  IF current_char(r) # None /\ is_whitespace(current_char(r))
  THEN (IF r.input = <<>> THEN <<>> ELSE <<Head(r.input)>>)
         \o skipped_whitespace(skip_char(r))
  ELSE <<>>

\* match_str that advances by the number of characters of val, not bytes.
match_str_chars(r, val) ==
  LET input == r.input
  IN  IF starts_with(input, val)
      THEN IF ~is_char_boundary(input, Len(val))
           THEN [r |-> r, res |-> "panic"]
           ELSE LET rest == split_at(input, Len(val))[2]
                IN  [r |-> [input |-> rest, current |-> Peek(rest)], res |-> "Ok"]
      ELSE [r |-> r, res |-> "NoMatch"]

\* StringReader::match_str
match_str(r, val) ==
  LET input == r.input
  IN  IF starts_with(input, val)
      THEN IF ~is_char_boundary(input, len(val))
           THEN [r |-> r, res |-> "panic"]
           ELSE LET rest == split_at(input, len(val))[2]
                IN  [r |-> [input |-> rest, current |-> Peek(rest)], res |-> "Ok"]
      ELSE [r |-> r, res |-> "NoMatch"]

\* read_until that leaves the cached lookahead as it was.
read_until_stale(r, cnd) ==
  LET rest  == r.input
      found == find(rest, cnd)
      index == IF found = NoIndex THEN len(rest) ELSE found
      halves == split_at(rest, index)
  IN  [r |-> [input |-> halves[2], current |-> r.current],
       res |-> "Ok", word |-> halves[1]]

\* read_until that also removes the character that ends the word.
read_until_eat(r, cnd) ==
  LET rest  == r.input
      found == find(rest, cnd)
      index == IF found = NoIndex THEN len(rest) ELSE found
      halves == split_at(rest, index)
  IN  [r |-> [input |-> Advance(halves[2]), current |-> Peek(Advance(halves[2]))],
       res |-> "Ok", word |-> halves[1]]

\* read_until that keeps the word and returns the rest.
read_until_swapped(r, cnd) ==
  LET rest  == r.input
      found == find(rest, cnd)
      index == IF found = NoIndex THEN len(rest) ELSE found
      halves == split_at(rest, index)
  IN  [r |-> [input |-> halves[1], current |-> Peek(halves[1])],
       res |-> "Ok", word |-> halves[2]]

\* StringReader::read_until
read_until(r, cnd) ==
  LET rest  == r.input
      found == find(rest, cnd)
      index == IF found = NoIndex THEN len(rest) ELSE found
  IN  IF ~is_char_boundary(rest, index)
      THEN [r |-> r, res |-> "panic", word |-> <<>>]
      ELSE LET halves == split_at(rest, index)
           IN  [r |-> [input |-> halves[2], current |-> Peek(halves[2])],
                res |-> "Ok", word |-> halves[1]]

\* read_word that reads until the first character that is not whitespace.
read_word_negated(r) == read_until(skip_whitespace(r), Chars \ Whitespace)

\* read_word that does not skip the leading whitespace.
read_word_noskip(r) == read_until(r, Whitespace)

\* StringReader::read_word
read_word(r) == read_until(skip_whitespace(r), Whitespace)

\* parse_word that moves the cursor before the conversion is known to succeed.
parse_word_eager(r, T) ==
  LET rest   == trim_start(r.input)
      found  == find(rest, Whitespace)
      index  == IF found = NoIndex THEN len(rest) ELSE found
      halves == split_at(rest, index)
      parsed == from_str(T, halves[1])
  IN  [r |-> [input |-> halves[2], current |-> Peek(halves[2])],
       res |-> IF parsed.ok THEN "Ok" ELSE parsed.err,
       word |-> halves[1], val |-> parsed.val]

\* StringReader::parse_word
parse_word(r, T) ==
  LET rest   == trim_start(r.input)
      found  == find(rest, Whitespace)
      index  == IF found = NoIndex THEN len(rest) ELSE found
  IN  IF ~is_char_boundary(rest, index)
      THEN [r |-> r, res |-> "panic", word |-> <<>>, val |-> 0]
      ELSE LET halves == split_at(rest, index)
               word   == halves[1]
               parsed == from_str(T, word)
           IN  IF ~parsed.ok
               THEN [r |-> r, res |-> parsed.err, word |-> word, val |-> 0]
               ELSE [r |-> [input |-> halves[2], current |-> Peek(halves[2])],
                     res |-> "Ok", word |-> word, val |-> parsed.val]

(***************************************************************************)
(* The state machine: one reader over one input, driven by a caller that   *)
(* calls the methods in any order with any arguments.                      *)
(***************************************************************************)

VARIABLES
  orig,      \* the string handed to new()
  input,     \* StringReader::input, as the rest of the string (as_str)
  current,   \* StringReader::current
  last,      \* the last call: method, arguments, result, reader before it
  acc        \* what the calls so far have consumed, in order

vars == <<orig, input, current, last, acc>>

\* The reader held in the state.
reader == [input |-> input, current |-> current]

\* All strings of at most n characters.
Strings(n) == UNION {[1..k -> Chars] : k \in 0..n}

\* The literals handed to match_str: the strings of at most MaxLit characters
\* made of the letter and the two whitespace characters.
Literals == UNION {[1..k -> Chars \ {"2"}] : k \in 0..MaxLit}

\* The conditions handed to read_until, each as the set of characters for
\* which the closure returns true.
Conditions == {Whitespace, {"a"}, {"2", " "}, {}, Chars}

\* A call record with every field at its default.
NoCall ==
  [op |-> "new", argc |-> None, args |-> <<>>, cnd |-> {}, ty |-> "",
   res |-> "Ok", retc |-> None, rets |-> <<>>, retb |-> FALSE, val |-> 0,
   skipped |-> <<>>, words |-> 0,
   pre |-> [input |-> <<>>, current |-> None]]

\* The record of a call of method op on the reader in the state.
Call(op) == [NoCall EXCEPT !.op = op, !.pre = reader]

Init ==
  /\ orig \in Strings(MaxLen)
  /\ input = new(orig).input
  /\ current = new(orig).current
  /\ last = [NoCall EXCEPT !.pre = new(orig)]
  /\ acc = <<>>

\* The reader after the call becomes the reader in the state.
Becomes(r) ==
  /\ input' = r.input
  /\ current' = r.current
  /\ UNCHANGED orig

\* current_char that takes the character out of the iterator.
CurrentCharAdvancing ==
  /\ Becomes([input |-> Advance(input), current |-> current])
  /\ last' = [Call("current_char") EXCEPT !.retc = Peek(input)]
  /\ UNCHANGED acc

CurrentChar ==
  /\ last' = [Call("current_char") EXCEPT !.retc = current_char(reader)]
  /\ UNCHANGED <<orig, input, current, acc>>

IsEmpty ==
  /\ last' = [Call("is_empty") EXCEPT !.retb = is_empty(reader)]
  /\ UNCHANGED <<orig, input, current, acc>>

AsStr ==
  /\ last' = [Call("as_str") EXCEPT !.rets = as_str(reader)]
  /\ UNCHANGED <<orig, input, current, acc>>

ReadChar ==
  LET out == read_char(reader)
  IN  /\ Becomes(out.r)
      /\ last' = [Call("read_char") EXCEPT !.res = out.res, !.retc = out.retc]
      /\ acc' = IF out.res = "Ok" THEN Append(acc, out.retc) ELSE acc

MatchChar(expected) ==
  LET out == match_char(reader, expected)
  IN  /\ Becomes(out.r)
      /\ last' = [Call("match_char") EXCEPT !.res = out.res, !.argc = expected]
      /\ acc' = IF out.res = "Ok" THEN Append(acc, expected) ELSE acc

\* skip_char written as read_char().unwrap(): a panic on an exhausted reader.
SkipCharUnwrap ==
  LET out == read_char(reader)
  IN  /\ Becomes(out.r)
      /\ last' = [Call("skip_char") EXCEPT
                    !.res = IF out.res = "Ok" THEN "Ok" ELSE "panic"]
      /\ acc' = IF input = <<>> THEN acc ELSE Append(acc, Head(input))

SkipChar ==
  /\ Becomes(skip_char(reader))
  /\ last' = Call("skip_char")
  /\ acc' = IF input = <<>> THEN acc ELSE Append(acc, Head(input))

SkipWhitespace ==
  /\ Becomes(skip_whitespace(reader))
  /\ last' = [Call("skip_whitespace") EXCEPT !.skipped = skipped_whitespace(reader)]
  /\ acc' = acc \o skipped_whitespace(reader)

MatchStr(val) ==
  LET out == match_str(reader, val)
  IN  /\ Becomes(out.r)
      /\ last' = [Call("match_str") EXCEPT !.res = out.res, !.args = val]
      /\ acc' = IF out.res = "Ok" THEN acc \o val ELSE acc

ReadUntil(cnd) ==
  LET out == read_until(reader, cnd)
  IN  /\ Becomes(out.r)
      /\ last' = [Call("read_until") EXCEPT !.res = out.res, !.cnd = cnd,
                                           !.rets = out.word]
      /\ acc' = acc \o out.word

\* The read_word calls made in a row on a reader that was not exhausted,
\* the one being made included.
WordCalls ==
  (IF last.op = "read_word" THEN last.words ELSE 0)
    + (IF is_empty(reader) THEN 0 ELSE 1)

ReadWord ==
  LET out == read_word(reader)
  IN  /\ Becomes(out.r)
      /\ last' = [Call("read_word") EXCEPT !.res = out.res, !.rets = out.word,
                                          !.skipped = skipped_whitespace(reader),
                                          !.words = WordCalls]
      /\ acc' = acc \o skipped_whitespace(reader) \o out.word

ParseWord(T) ==
  LET out     == parse_word(reader, T)
      trimmed == SubSeq(input, 1, Len(input) - Len(trim_start(input)))
  IN  /\ Becomes(out.r)
      /\ last' = [Call("parse_word") EXCEPT !.res = out.res, !.ty = T,
                                           !.rets = out.word, !.val = out.val]
      /\ acc' = IF out.res = "Ok" THEN acc \o trimmed \o out.word ELSE acc

Next ==
  \/ CurrentChar
  \/ IsEmpty
  \/ AsStr
  \/ ReadChar
  \/ \E expected \in Chars : MatchChar(expected)
  \/ SkipChar
  \/ SkipWhitespace
  \/ \E val \in Literals : MatchStr(val)
  \/ \E cnd \in Conditions : ReadUntil(cnd)
  \/ ReadWord
  \/ \E T \in Types : ParseWord(T)

Spec == Init /\ [][Next]_vars

\* The caller's loop: read words until the reader is exhausted.
WordLoop == ~is_empty(reader) /\ ReadWord

SpecWords == Init /\ [][WordLoop]_vars

\* The numeric specification: a reader over a string of NumChars, read with
\* the two narrowest integer wrappers.
InitNum ==
  /\ orig \in UNION {[1..k -> NumChars] : k \in 0..MaxNumLen}
  /\ input = new(orig).input
  /\ current = new(orig).current
  /\ last = [NoCall EXCEPT !.pre = new(orig)]
  /\ acc = <<>>

ReadI8 == ParseWord("i8")

ReadU8 == ParseWord("u8")

NextNum == ReadI8 \/ ReadU8

SpecNum == InitNum /\ [][NextNum]_vars

(***************************************************************************)
(* Properties.                                                             *)
(***************************************************************************)

\* s is the end of t.
IsSuffix(s, t) == \E k \in 0..Len(t) : s = SubSeq(t, k + 1, Len(t))

\* s is the start of t.
IsPrefix(s, t) == \E k \in 0..Len(t) : s = SubSeq(t, 1, k)

\* The length of the longest prefix of s made of characters of set.
RunLen(s, set) ==
  CHOOSE k \in 0..Len(s) :
    /\ \A i \in 1..k : s[i] \in set
    /\ k = Len(s) \/ s[k + 1] \notin set

\* The leading whitespace of s, and the whitespace-delimited token after it.
LeadingSpace(s) == SubSeq(s, 1, RunLen(s, Whitespace))
NextToken(s) ==
  LET t == SubSeq(s, RunLen(s, Whitespace) + 1, Len(s))
  IN  SubSeq(t, 1, RunLen(t, (Chars \cup NumChars) \ Whitespace))

\* C1: after any sequence of calls the lookahead is the first character of
\* the rest, it is None exactly when the rest is empty, and is_empty() holds
\* exactly when as_str() is empty.
C1_LookaheadIsFirstChar ==
  /\ as_str(reader) # <<>> => current_char(reader) = Head(as_str(reader))
  /\ current_char(reader) = None <=> as_str(reader) = <<>>
  /\ is_empty(reader) <=> as_str(reader) = <<>>

C1_Witness ==
  /\ last.op = "read_until" /\ last.rets # <<>>
  /\ input # <<>> /\ current = Head(input) /\ current # last.pre.current

\* C2: a match_char or match_str call that returns EmptyInput or NoMatch
\* leaves the rest and the lookahead as they were before the call.
C2_FailedMatchKeepsReader ==
  (last.op \in {"match_char", "match_str"} /\ last.res \in {"EmptyInput", "NoMatch"})
    => reader = last.pre

C2_Witness ==
  /\ last.op = "match_str" /\ last.res = "NoMatch"
  /\ Len(last.args) = 2 /\ input # <<>> /\ Head(last.args) = Head(input)

\* C3: a parse_word call whose token does not convert leaves the rest and the
\* lookahead as they were (leading whitespace included) and returns the error
\* of the conversion of that token.
C3_FailedParseKeepsReader ==
  (last.op = "parse_word" /\ last.res # "Ok")
    => /\ reader = last.pre
       /\ ~from_str(last.ty, NextToken(last.pre.input)).ok
       /\ last.res = from_str(last.ty, NextToken(last.pre.input)).err

C3_Witness ==
  /\ last.op = "parse_word" /\ last.res = "InvalidDigit"
  /\ Len(input) = 3 /\ is_whitespace(Head(input))

\* C4: a parse_word call that succeeds converts the slice read_word would
\* return from the same reader and leaves the reader read_word would leave:
\* leading whitespace and token consumed, the delimiter after it not.
C4_ParseWordAdvancesAsReadWord ==
  (last.op = "parse_word" /\ last.res = "Ok")
    => /\ last.rets = read_word(last.pre).word
       /\ reader = read_word(last.pre).r
       /\ last.pre.input = LeadingSpace(last.pre.input) \o last.rets \o input
       /\ input = <<>> \/ is_whitespace(Head(input))

C4_Witness ==
  /\ last.op = "parse_word" /\ last.res = "Ok" /\ last.ty = "u8"
  /\ last.pre.input = <<"EM", "2", " ">> /\ input = <<" ">>

\* C5: the rest is always a suffix of the original input, and after every
\* call a suffix of the rest before the call: its length never grows.
C5_RestOnlyShrinks ==
  /\ IsSuffix(as_str(reader), orig)
  /\ IsSuffix(as_str(reader), as_str(last.pre))
  /\ len(as_str(reader)) <= len(as_str(last.pre))

C5_Witness ==
  /\ last.op = "read_until" /\ last.pre.input # orig
  /\ input # <<>> /\ len(input) < len(last.pre.input)

\* The calls the length of the rest has to decrease on, but for match_str.
ConsumingCall ==
  \/ last.op = "read_char" /\ last.res = "Ok"
  \/ last.op = "skip_char" /\ as_str(last.pre) # <<>>
  \/ last.op = "match_char" /\ last.res = "Ok"

\* C6 as stated: the length of the rest strictly decreases on every
\* successful read_char, skip_char on non-empty input, successful match_char
\* and successful match_str, whatever the literal.
C6_AsStated ==
  (ConsumingCall \/ (last.op = "match_str" /\ last.res = "Ok"))
    => len(as_str(reader)) < len(as_str(last.pre))

\* C6: the length of the rest strictly decreases on every successful
\* read_char, skip_char on non-empty input, successful match_char and
\* successful match_str of a non-empty literal; a successful match_str of the
\* empty literal leaves the reader as it was.
C6_ConsumingCallsShrinkRest ==
  /\ (ConsumingCall \/ (last.op = "match_str" /\ last.res = "Ok" /\ last.args # <<>>))
       => len(as_str(reader)) < len(as_str(last.pre))
  /\ (last.op = "match_str" /\ last.args = <<>>)
       => (last.res = "Ok" /\ reader = last.pre)

C6_Witness ==
  /\ last.op = "match_str" /\ last.res = "Ok" /\ Len(last.args) = 2
  /\ len(as_str(reader)) < len(as_str(last.pre)) /\ input # <<>>

\* C7: reading words from a fresh reader until it is exhausted, the
\* whitespace runs skipped and the words returned, concatenated in order, are
\* the original input; before that they are the part consumed so far.
C7_WordsRebuildInput ==
  /\ acc \o as_str(reader) = orig
  /\ is_empty(reader) => acc = orig

C7_Witness ==
  /\ orig = <<" ", "a", "EM">> /\ is_empty(reader)
  /\ last.op = "read_word" /\ last.skipped = <<"EM">> /\ last.rets = <<>>
  /\ acc = orig

\* C8: match_str succeeds exactly when the rest starts with the literal and
\* then removes exactly the literal; otherwise it returns NoMatch, never
\* EmptyInput: on an exhausted reader the empty literal matches and no other.
C8_MatchStrIffPrefix ==
  last.op = "match_str"
    => /\ last.res = "Ok" <=> IsPrefix(last.args, as_str(last.pre))
       /\ last.res = "Ok" => as_str(last.pre) = last.args \o as_str(reader)
       /\ last.res # "Ok" => last.res = "NoMatch"
       /\ as_str(last.pre) = <<>> =>
            last.res = (IF last.args = <<>> THEN "Ok" ELSE "NoMatch")

C8_Witness ==
  /\ last.op = "match_str" /\ last.res = "Ok"
  /\ Len(last.args) = 2 /\ last.args[1] = "EM" /\ input # <<>>

\* C9: read_until never fails and returns the longest prefix of the rest with
\* no character satisfying the condition; the rest before the call is that
\* prefix followed by the rest after it, which is empty or starts with a
\* character satisfying the condition; when the condition holds at once, or
\* the reader is exhausted, the prefix is empty and the reader unchanged.
C9_ReadUntilLongestPrefix ==
  last.op = "read_until"
    => /\ last.res = "Ok"
       /\ last.rets = SubSeq(as_str(last.pre), 1,
                             RunLen(as_str(last.pre), Chars \ last.cnd))
       /\ as_str(last.pre) = last.rets \o as_str(reader)
       /\ current_char(reader) = None \/ current_char(reader) \in last.cnd
       /\ (as_str(last.pre) = <<>> \/ current_char(last.pre) \in last.cnd)
            => (last.rets = <<>> /\ reader = last.pre)

C9_Witness ==
  /\ last.op = "read_until" /\ Len(last.rets) = 2 /\ last.rets[2] = "EM"
  /\ input # <<>> /\ current \in last.cnd

\* C10: read_word never fails and returns the maximal run of non-whitespace
\* characters after the leading whitespace; the slice is empty exactly when
\* no non-whitespace character remained, and the reader is then exhausted.
\* On an exhausted reader read_word returns the empty slice and read_char
\* fails with EmptyInput.
C10_ReadWordMaximalRun ==
  /\ last.op = "read_word"
       => /\ last.res = "Ok"
          /\ \A i \in 1..Len(last.rets) : ~is_whitespace(last.rets[i])
          /\ last.rets = NextToken(as_str(last.pre))
          /\ as_str(last.pre) =
               LeadingSpace(as_str(last.pre)) \o last.rets \o as_str(reader)
          /\ as_str(reader) = <<>> \/ is_whitespace(Head(as_str(reader)))
          /\ last.rets = <<>> <=>
               \A i \in 1..Len(as_str(last.pre)) : is_whitespace(as_str(last.pre)[i])
          /\ last.rets = <<>> => (is_empty(reader) /\ as_str(reader) = <<>>)
  /\ (last.op = "read_char" /\ is_empty(last.pre)) => last.res = "EmptyInput"

C10_Witness ==
  /\ last.op = "read_word" /\ as_str(last.pre) = <<"EM", "a", " ">>
  /\ last.rets = <<"a">> /\ as_str(reader) = <<" ">>

\* C11: match_char returns EmptyInput on an exhausted reader whatever is
\* expected, NoMatch when the current character differs from the expected
\* one, and otherwise succeeds, removes exactly that one character and leaves
\* the reader skip_char would leave.
C11_MatchCharOutcomes ==
  last.op = "match_char"
    => /\ is_empty(last.pre) => last.res = "EmptyInput"
       /\ (~is_empty(last.pre) /\ current_char(last.pre) # last.argc)
            => last.res = "NoMatch"
       /\ (~is_empty(last.pre) /\ current_char(last.pre) = last.argc)
            => /\ last.res = "Ok"
               /\ reader = skip_char(last.pre)
               /\ as_str(last.pre) = <<last.argc>> \o as_str(reader)

C11_Witness ==
  /\ last.op = "match_char" /\ last.res = "Ok" /\ last.argc = "EM"
  /\ as_str(last.pre) = <<"EM", "EM", "a">> /\ as_str(reader) = <<"EM", "a">>

\* C12: read_char fails with EmptyInput exactly on an exhausted reader, which
\* it leaves unchanged; otherwise it returns the character current_char
\* reported before the call and removes exactly that character.
C12_ReadCharOutcomes ==
  last.op = "read_char"
    => /\ last.res = "EmptyInput" <=> is_empty(last.pre)
       /\ last.res = "EmptyInput" => reader = last.pre
       /\ last.res # "EmptyInput"
            => /\ last.res = "Ok"
               /\ last.retc = current_char(last.pre)
               /\ as_str(last.pre) = <<last.retc>> \o as_str(reader)

C12_Witness ==
  /\ last.op = "read_char" /\ last.res = "Ok" /\ last.retc = "a"
  /\ as_str(reader) # <<>> /\ current_char(reader) # "a"

\* C13: new consumes nothing: right after construction as_str() is the whole
\* input, current_char() its first character (None for the empty input), and
\* is_empty() holds exactly for the empty input.
C13_NewConsumesNothing ==
  last.op = "new"
    => /\ as_str(reader) = orig
       /\ current_char(reader) = (IF orig = <<>> THEN None ELSE orig[1])
       /\ is_empty(reader) <=> orig = <<>>

C13_Witness ==
  /\ last.op = "new" /\ orig = <<"EM", "a", " ">>
  /\ current_char(reader) = "EM" /\ ~is_empty(reader)

\* The methods that take &self.
Observers == {"current_char", "as_str", "is_empty"}

\* C14: current_char, as_str and is_empty leave the rest and the lookahead
\* as they were, and what they return is what they return on the reader they
\* leave: called again, in any order, they return the same values.
C14_ObserversKeepReader ==
  last.op \in Observers
    => /\ reader = last.pre
       /\ last.op = "current_char" => last.retc = current_char(reader)
       /\ last.op = "as_str" => last.rets = as_str(reader)
       /\ last.op = "is_empty" => last.retb = is_empty(reader)

C14_Witness ==
  /\ last.op = "current_char" /\ last.retc = "EM"
  /\ as_str(reader) = <<"EM", "a">> /\ orig = <<" ", "EM", "a">>

\* C15: skip_whitespace ends and removes exactly the leading run of
\* whitespace: what it removes is whitespace only, the current character is
\* then None or not whitespace, and a reader that is exhausted or at a
\* non-whitespace character is left unchanged.
C15_SkipWhitespaceMaximalRun ==
  last.op = "skip_whitespace"
    => /\ last.res = "Ok"
       /\ last.skipped = LeadingSpace(as_str(last.pre))
       /\ \A i \in 1..Len(last.skipped) : is_whitespace(last.skipped[i])
       /\ as_str(last.pre) = LeadingSpace(as_str(last.pre)) \o as_str(reader)
       /\ current_char(reader) = None \/ ~is_whitespace(current_char(reader))
       /\ (current_char(last.pre) = None \/ ~is_whitespace(current_char(last.pre)))
            => reader = last.pre

C15_Witness ==
  /\ last.op = "skip_whitespace" /\ as_str(last.pre) = <<" ", "EM", "a">>
  /\ as_str(reader) = <<"a">> /\ last.skipped = <<" ", "EM">>

\* C16: once the reader is exhausted every call leaves as_str() empty and
\* current_char() None, and skip_char on it is a call that succeeds and
\* changes nothing.
C16_ExhaustedIsAbsorbing ==
  [][is_empty(reader)
       => /\ as_str(reader)' = <<>>
          /\ current_char(reader)' = None
          /\ last'.op = "skip_char" => (last'.res = "Ok" /\ reader' = reader)]_vars

C16_Witness ==
  /\ last.op = "skip_char" /\ is_empty(last.pre) /\ is_empty(reader)
  /\ orig = <<"a", " ", "EM">>

\* C17: a read_word call on a reader that is not exhausted removes at least
\* one character, so the read_word calls made in a row on such a reader are
\* never more than the input has characters; a read_until call whose
\* condition holds for the current character removes nothing.
C17_ReadWordProgress ==
  /\ (last.op = "read_word" /\ ~is_empty(last.pre))
       => len(as_str(reader)) < len(as_str(last.pre))
  /\ last.words <= Len(orig)
  /\ (last.op = "read_until" /\ current_char(last.pre) \in last.cnd)
       => (last.rets = <<>> /\ reader = last.pre)

C17_Witness ==
  /\ last.op = "read_word" /\ last.words = 2 /\ orig = <<"a", " ">>
  /\ is_empty(reader) /\ last.rets = <<>>

\* The numerals of an integer type: decimal digits, at least one, after an
\* optional plus sign or, for a signed type, minus sign.
Signs(T) == IF T = "i8" THEN {"+", "-"} ELSE {"+"}
Unsigned(w) == IF w # <<>> /\ Head(w) \in {"+", "-"} THEN Tail(w) ELSE w
IsNumeral(T, w) ==
  /\ Unsigned(w) # <<>>
  /\ \A i \in 1..Len(Unsigned(w)) : \E d \in 1..10 : Digits[d] = Unsigned(w)[i]
  /\ Unsigned(w) # w => Head(w) \in Signs(T)

\* The number a numeral denotes.
RECURSIVE Magnitude(_)
Magnitude(ds) ==
  IF ds = <<>> THEN 0
  ELSE 10 * Magnitude(SubSeq(ds, 1, Len(ds) - 1))
         + (CHOOSE d \in 0..9 : Digits[d + 1] = ds[Len(ds)])
NumberOf(w) ==
  IF Head(w) = "-" THEN 0 - Magnitude(Unsigned(w)) ELSE Magnitude(Unsigned(w))

\* The values of the two types.
RangeOf(T) == IF T = "i8" THEN -128..127 ELSE 0..255

\* C18: read_u8 and read_i8 succeed exactly when the next token is a decimal
\* numeral of the type whose value is within 0..255, respectively -128..127,
\* and return that value, neither wrapped nor truncated; for any other token
\* (out of range, empty, not a numeral) they fail with a ParseIntError and
\* leave the reader as it was.
C18_NarrowIntegersDoNotWrap ==
  (last.op = "parse_word" /\ last.ty \in {"u8", "i8"})
    => LET token == NextToken(as_str(last.pre))
           fits  == IsNumeral(last.ty, token) /\ NumberOf(token) \in RangeOf(last.ty)
       IN  /\ last.res = "Ok" <=> fits
           /\ last.res = "Ok" => last.val = NumberOf(token)
           /\ last.res # "Ok"
                => /\ last.res \in {"Empty", "InvalidDigit", "PosOverflow", "NegOverflow"}
                   /\ reader = last.pre

C18_Witness ==
  /\ last.op = "parse_word" /\ last.ty = "u8" /\ last.res = "PosOverflow"
  /\ as_str(last.pre) = <<" ", "2", "5", "6">> /\ reader = last.pre

====
